---- MODULE Spec2Model ----
(***************************************************************************)
(* The `namespace` rule of eslint-plugin-import (src/rules/namespace.js).  *)
(*                                                                         *)
(* One analysis pass over one file: create() builds an empty `namespaces`  *)
(* map, the Program listener fills it from the top-level import            *)
(* declarations, and the other listeners (ExportNamespaceSpecifier,        *)
(* MemberExpression, VariableDeclarator, JSXMemberExpression) validate     *)
(* each access against it, calling context.report for every diagnostic.    *)
(*                                                                         *)
(* AST nodes are records that keep the fields the rule reads.  A node of   *)
(* a report is named by its role and its position in the listener's        *)
(* argument.  Messages are the strings the rule builds.                    *)
(***************************************************************************)
EXTENDS Naturals, Sequences, FiniteSets

VARIABLES
  pc,             \* "created": create() returned; "handler": a listener has
                  \* just run; "traversal": the traverser is between nodes
  allowComputed,  \* context.options[0].allowComputed, read once by create()
  namespaces,     \* the Map of create(): local name -> ExportMap
  event,          \* the node (and scope answer) handed to the last listener
  reports         \* what that listener passed to context.report, in order

vars == <<pc, allowComputed, namespaces, event, reports>>

----------------------------------------------------------------------------
(* Bounds of the inputs.                                                   *)

\* top-level statements of a Program body
MaxBody == 2
\* import specifiers of a Program body, all declarations together
MaxSpecifiers == 2
\* property hops of a member-access chain
MaxChain == 3
\* properties of a destructuring pattern, all levels together
MaxPattern == 3

----------------------------------------------------------------------------
(* The ExportMap collaborator (../ExportMap), by the interface the rule    *)
(* consumes: errors, size, has(name), get(name), reportErrors.             *)

\* an exported name's descriptor: has(name), whether get(name) is null,
\* and the descriptor's `namespace` ("" when it carries none)
Absent == [has |-> FALSE, isNull |-> TRUE, namespace |-> ""]
Ambiguous == [has |-> TRUE, isNull |-> TRUE, namespace |-> ""]
Value == [has |-> TRUE, isNull |-> FALSE, namespace |-> ""]
Namespace(m) == [has |-> TRUE, isNull |-> FALSE, namespace |-> m]

ExportNames == {"a", "b", "c", "d", "default"}

\* the export maps of the analysed project, by module path.  "./root" and
\* "./mid" export each other as a namespace; "./empty" exports nothing;
\* "./broken" could not be parsed.
ExportMaps ==
  [m \in {"./root", "./mid", "./empty", "./broken"} |->
     CASE m = "./root" ->
            [errors |-> <<>>,
             names |-> [n \in ExportNames |->
                          CASE n = "a" -> Namespace("./mid")
                            [] n = "b" -> Value
                            [] n = "c" -> Ambiguous
                            [] n = "d" -> Absent
                            [] OTHER -> Namespace("./mid")]]
       [] m = "./mid" ->
            [errors |-> <<>>,
             names |-> [n \in ExportNames |->
                          CASE n = "a" -> Namespace("./root")
                            [] n = "b" -> Absent
                            [] n = "c" -> Ambiguous
                            [] n = "d" -> Value
                            [] OTHER -> Absent]]
       [] m = "./empty" ->
            [errors |-> <<>>, names |-> [n \in ExportNames |-> Absent]]
       [] OTHER ->
            [errors |-> <<"Parse errors in imported module './broken'">>,
             names |-> [n \in ExportNames |-> Absent]]]

\* null: what Exports.get answers for a module it cannot resolve
NullMap == "null"

\* x instanceof Exports
IsExports(x) == x \in DOMAIN ExportMaps

\* Exports.get(source, context)
ExportsGet(source) == IF IsExports(source) THEN source ELSE NullMap

\* imports.has(name)
Has(m, name) == name \in ExportNames /\ ExportMaps[m].names[name].has

\* imports.get(name): the descriptor; isNull stands for a null answer
Get(m, name) == IF name \in ExportNames THEN ExportMaps[m].names[name] ELSE Absent

\* imports.size
Size(m) == Cardinality({n \in ExportNames : ExportMaps[m].names[n].has})

\* a diagnostic handed to context.report
Report(role, path, message) ==
  [node |-> [role |-> role, path |-> path], message |-> message]

RECURSIVE reportErrors(_, _, _)
\* imports.reportErrors(context, declaration): one diagnostic per error, on
\* the declaration
reportErrors(m, path, i) ==
  IF i > Len(ExportMaps[m].errors) THEN <<>>
  ELSE <<Report("declaration", path, ExportMaps[m].errors[i])>>
         \o reportErrors(m, path, i + 1)

----------------------------------------------------------------------------
(* The Map `namespaces`.                                                   *)

EmptyMap == [x \in {} |-> NullMap]

\* namespaces.has(name)
MapHas(map, name) == name \in DOMAIN map

\* namespaces.set(name, value)
MapSet(map, name, value) ==
  [x \in DOMAIN map \cup {name} |-> IF x = name THEN value ELSE map[x]]

----------------------------------------------------------------------------
(* processBodyStatement and the Program listener.                          *)

\* absent child node (specifier.imported of a default specifier)
NoNode == ""

\* specifier.imported ? (specifier.imported.name || ...) : 'default'
importedName(specifier) ==
  IF specifier.imported # NoNode THEN specifier.imported ELSE "default"

\* `No exported names found in module '${declaration.source.value}'.`
noExportsMessage(source) ==
  "No exported names found in module '" \o source \o "'."

\* faulty variant of processSpecifier: an empty namespace is reported but
\* not registered
processSpecifierEmptyUnbound(d, i, declaration, imports, st) ==
  LET specifier == declaration.specifiers[i] IN
  CASE specifier.type = "ImportNamespaceSpecifier" ->
         IF Size(imports) = 0
           THEN [st EXCEPT !.reports =
                   Append(@, Report("specifier", <<d, i>>,
                                    noExportsMessage(declaration.source)))]
           ELSE [st EXCEPT !.namespaces = MapSet(@, specifier.local, imports)]
    [] specifier.type \in {"ImportDefaultSpecifier", "ImportSpecifier"} ->
         LET meta == Get(imports, importedName(specifier)) IN
         IF meta.isNull \/ meta.namespace = ""
           THEN st
           ELSE [st EXCEPT !.namespaces =
                   MapSet(st.namespaces, specifier.local, meta.namespace)]
    [] OTHER -> st

\* one turn of declaration.specifiers.forEach; st is [namespaces, reports]
processSpecifier(d, i, declaration, imports, st) ==
  LET specifier == declaration.specifiers[i] IN
  CASE specifier.type = "ImportNamespaceSpecifier" ->
         [namespaces |-> MapSet(st.namespaces, specifier.local, imports),
          reports |->
            IF Size(imports) = 0
              THEN Append(st.reports,
                          Report("specifier", <<d, i>>,
                                 noExportsMessage(declaration.source)))
              ELSE st.reports]
    [] specifier.type \in {"ImportDefaultSpecifier", "ImportSpecifier"} ->
         LET meta == Get(imports, importedName(specifier)) IN
         IF meta.isNull \/ meta.namespace = ""
           THEN st
           ELSE [st EXCEPT !.namespaces =
                   MapSet(st.namespaces, specifier.local, meta.namespace)]
    [] OTHER -> st

RECURSIVE forEachSpecifier(_, _, _, _, _)
forEachSpecifier(d, i, declaration, imports, st) ==
  IF i > Len(declaration.specifiers) THEN st
  ELSE forEachSpecifier(d, i + 1, declaration, imports,
                        processSpecifier(d, i, declaration, imports, st))

\* faulty variant of processBodyStatement: the errors are forwarded but the
\* specifiers are processed all the same
processBodyStatementNoReturn(d, declaration, st) ==
  IF declaration.type # "ImportDeclaration" THEN st
  ELSE IF Len(declaration.specifiers) = 0 THEN st
  ELSE LET imports == ExportsGet(declaration.source) IN
       IF imports = NullMap THEN st
       ELSE forEachSpecifier(d, 1, declaration, imports,
              [st EXCEPT !.reports = @ \o reportErrors(imports, <<d>>, 1)])

\* processBodyStatement(context, namespaces, declaration), declaration
\* being body[d]
processBodyStatement(d, declaration, st) ==
  IF declaration.type # "ImportDeclaration" THEN st
  ELSE IF Len(declaration.specifiers) = 0 THEN st
  ELSE LET imports == ExportsGet(declaration.source) IN
       IF imports = NullMap THEN st
       ELSE IF Len(ExportMaps[imports].errors) > 0
         THEN [st EXCEPT !.reports = @ \o reportErrors(imports, <<d>>, 1)]
         ELSE forEachSpecifier(d, 1, declaration, imports, st)

RECURSIVE forEachStatement(_, _, _)
\* body.forEach(x => processBodyStatement(context, namespaces, x))
forEachStatement(body, d, st) ==
  IF d > Len(body) THEN st
  ELSE forEachStatement(body, d + 1, processBodyStatement(d, body[d], st))

----------------------------------------------------------------------------
(* Inputs of the Program listener.                                         *)

LocalNames == {"ns", "deep"}
Sources == {"./root", "./empty", "./broken", "./unresolved"}

\* import * as ns, import * as deep, import deep, import { a as ns },
\* import { b as deep }
ImportSpecifiers ==
  [type : {"ImportNamespaceSpecifier"}, local : LocalNames, imported : {NoNode}]
  \cup {[type |-> "ImportDefaultSpecifier", local |-> "deep", imported |-> NoNode],
        [type |-> "ImportSpecifier", local |-> "ns", imported |-> "a"],
        [type |-> "ImportSpecifier", local |-> "deep", imported |-> "b"]}

\* what a top-level statement is: an import of one of Sources, or none
StatementKinds == Sources \cup {"ExpressionStatement"}

\* the specifiers specs[j] that belong to statement d, in source order
specifiersOf(d, specs, owner) ==
  LET mine == {j \in DOMAIN specs : owner[j] = d}
      first == IF mine = {} THEN 1 ELSE CHOOSE j \in mine : \A k \in mine : j <= k
  IN [j \in 1..Cardinality(mine) |-> specs[first + j - 1]]

\* the Program body of the statements `kinds`, the specifiers `specs`
\* being dealt to the statements by `owner`
MakeBody(kinds, specs, owner) ==
  [d \in DOMAIN kinds |->
     IF kinds[d] = "ExpressionStatement"
       THEN [type |-> "ExpressionStatement", source |-> NoNode, specifiers |-> <<>>]
       ELSE [type |-> "ImportDeclaration", source |-> kinds[d],
             specifiers |-> specifiersOf(d, specs, owner)]]

\* specifiers are dealt in source order, to import declarations only
IsDeal(kinds, owner) ==
  /\ \A j \in DOMAIN owner : kinds[owner[j]] # "ExpressionStatement"
  /\ \A j, k \in DOMAIN owner : j <= k => owner[j] <= owner[k]

----------------------------------------------------------------------------
(* makeMessage and the other messages.                                     *)

RECURSIVE join(_, _)
\* namepath.join('.')
join(namepath, i) ==
  IF i > Len(namepath) THEN ""
  ELSE IF i = Len(namepath) THEN namepath[i]
  ELSE namepath[i] \o "." \o join(namepath, i + 1)

\* makeMessage(last, namepath), name being last.name
makeMessage(name, namepath) ==
  "'" \o name \o "' not found in "
    \o (IF Len(namepath) > 1 THEN "deeply " ELSE "")
    \o "imported namespace '" \o join(namepath, 1) \o "'."

\* `Assignment to member of namespace '${dereference.object.name}'.`
assignmentMessage(name) == "Assignment to member of namespace '" \o name \o "'."

\* `Unable to validate computed reference to imported namespace '...'.`
computedMessage(name) ==
  "Unable to validate computed reference to imported namespace '" \o name \o "'."

destructureMessage == "Only destructure top-level names."

----------------------------------------------------------------------------
(* The ExportNamespaceSpecifier listener.                                  *)

\* ExportNamespaceSpecifier(namespace): e.source is the source of the
\* declaration importDeclaration(context) finds
exportNamespaceSpecifier(e) ==
  LET imports == ExportsGet(e.source) IN
  IF imports = NullMap THEN <<>>
  ELSE IF Len(ExportMaps[imports].errors) > 0
    THEN reportErrors(imports, <<>>, 1)
  ELSE IF Size(imports) = 0
    THEN <<Report("specifier", <<>>, noExportsMessage(e.source))>>
  ELSE <<>>

----------------------------------------------------------------------------
(* The MemberExpression listener.  The chain obj.p1.p2...pn is the member  *)
(* expressions 1..n, node i having node i-1 (the identifier for i = 1) as  *)
(* its object and segments[i] as its property; node n+1 is the parent of   *)
(* the whole chain.                                                        *)

\* dereference.type of node i; what encloses the parent is a statement
derefType(e, i) ==
  IF i <= Len(e.segments) THEN "MemberExpression"
  ELSE IF i > Len(e.segments) + 1 THEN "ExpressionStatement"
  ELSE IF e.parent = "ComputedProperty" THEN "MemberExpression"
  ELSE IF e.parent \in {"AssignmentLeft", "AssignmentRight"} THEN "AssignmentExpression"
  ELSE e.parent

\* dereference.computed of node i: the parent host[chain] is computed
derefComputed(e, i) ==
  IF i <= Len(e.segments) THEN e.segments[i].computed ELSE TRUE

\* dereference.object.name of node i, as a template renders it: the object
\* of a deeper node is a member expression, which has no name
derefObjectName(e, i) ==
  IF i = 1 THEN e.object
  ELSE IF i <= Len(e.segments) THEN "undefined"
  ELSE e.host

\* dereference.parent.type === 'AssignmentExpression'
\*   && dereference.parent.left === dereference, for node i
isAssignmentTarget(e, i) ==
  /\ derefType(e, i + 1) = "AssignmentExpression"
  /\ e.parent = "AssignmentLeft"

RECURSIVE goDeep(_, _, _, _, _)
\* faulty variant of goDeep: a missing name is reported and the walk goes
\* on to the next hop
goDeepNoBreak(e, i, namespace, namepath, allow) ==
  IF ~(IsExports(namespace) /\ derefType(e, i) = "MemberExpression") THEN <<>>
  ELSE IF derefComputed(e, i)
    THEN IF ~allow
           THEN <<Report("property", <<i>>, computedMessage(derefObjectName(e, i)))>>
           ELSE <<>>
  ELSE IF ~Has(namespace, e.segments[i].name)
    THEN <<Report("property", <<i>>, makeMessage(e.segments[i].name, namepath))>>
           \o goDeep(e, i + 1, namespace, namepath, allow)
  ELSE LET exported == Get(namespace, e.segments[i].name) IN
       IF exported.isNull THEN <<>>
       ELSE goDeep(e, i + 1, exported.namespace,
                   Append(namepath, e.segments[i].name), allow)

\* faulty variant of goDeep: a computed hop is skipped and the walk goes on
goDeepPastComputed(e, i, namespace, namepath, allow) ==
  IF ~(IsExports(namespace) /\ derefType(e, i) = "MemberExpression") THEN <<>>
  ELSE IF derefComputed(e, i)
    THEN (IF ~allow
            THEN <<Report("property", <<i>>, computedMessage(derefObjectName(e, i)))>>
            ELSE <<>>)
           \o goDeep(e, i + 1, namespace, namepath, allow)
  ELSE IF ~Has(namespace, e.segments[i].name)
    THEN <<Report("property", <<i>>, makeMessage(e.segments[i].name, namepath))>>
  ELSE LET exported == Get(namespace, e.segments[i].name) IN
       IF exported.isNull THEN <<>>
       ELSE goDeep(e, i + 1, exported.namespace,
                   Append(namepath, e.segments[i].name), allow)

\* faulty variant of goDeep: a name whose get() is null is taken for a
\* missing name
goDeepNullIsMissing(e, i, namespace, namepath, allow) ==
  IF ~(IsExports(namespace) /\ derefType(e, i) = "MemberExpression") THEN <<>>
  ELSE IF derefComputed(e, i)
    THEN IF ~allow
           THEN <<Report("property", <<i>>, computedMessage(derefObjectName(e, i)))>>
           ELSE <<>>
  ELSE LET exported == Get(namespace, e.segments[i].name) IN
       IF ~Has(namespace, e.segments[i].name) \/ exported.isNull
         THEN <<Report("property", <<i>>, makeMessage(e.segments[i].name, namepath))>>
         ELSE goDeep(e, i + 1, exported.namespace,
                     Append(namepath, e.segments[i].name), allow)

\* the while loop of the listener, dereference being node i
goDeep(e, i, namespace, namepath, allow) ==
  IF ~(IsExports(namespace) /\ derefType(e, i) = "MemberExpression") THEN <<>>
  ELSE IF derefComputed(e, i)
    THEN IF ~allow
           THEN <<Report("property", <<i>>, computedMessage(derefObjectName(e, i)))>>
           ELSE <<>>
  ELSE IF ~Has(namespace, e.segments[i].name)
    THEN <<Report("property", <<i>>, makeMessage(e.segments[i].name, namepath))>>
  ELSE LET exported == Get(namespace, e.segments[i].name) IN
       IF exported.isNull THEN <<>>
       ELSE goDeep(e, i + 1, exported.namespace,
                   Append(namepath, e.segments[i].name), allow)

\* faulty variant of memberExpression: the assignment is reported only when
\* the walk of the chain found nothing to report
memberExpressionWalksFirst(e, map, allow) ==
  IF e.objectType # "Identifier" THEN <<>>
  ELSE IF ~MapHas(map, e.object) THEN <<>>
  ELSE IF e.scope # "module" THEN <<>>
  ELSE LET walked == goDeep(e, 1, map[e.object], <<e.object>>, allow) IN
       IF walked = <<>> /\ isAssignmentTarget(e, 1)
         THEN <<Report("parent", <<1>>, assignmentMessage(e.object))>>
         ELSE walked

\* MemberExpression(dereference), dereference being node 1
memberExpression(e, map, allow) ==
  IF e.objectType # "Identifier" THEN <<>>
  ELSE IF ~MapHas(map, e.object) THEN <<>>
  ELSE IF e.scope # "module" THEN <<>>
  ELSE (IF isAssignmentTarget(e, 1)
          THEN <<Report("parent", <<1>>, assignmentMessage(e.object))>>
          ELSE <<>>)
       \o goDeep(e, 1, map[e.object], <<e.object>>, allow)

----------------------------------------------------------------------------
(* The VariableDeclarator listener.                                        *)

\* path.pop()
pop(path) == SubSeq(path, 1, Len(path) - 1)

RECURSIVE testKey(_, _, _, _)
RECURSIVE forOfProperties(_, _, _, _, _)
\* testKey(pattern, namespace, path): `at` is the position of the pattern
\* in the declarator's id, st is [reports, path], path being the array the
\* recursion shares
testKey(pattern, namespace, at, st) ==
  IF ~IsExports(namespace) THEN st
  ELSE IF pattern.type # "ObjectPattern" THEN st
  ELSE forOfProperties(pattern, namespace, at, 1, st)

\* faulty variant of forOfProperties: the key is pushed on the path before
\* it is looked up
forOfPropertiesPushFirst(pattern, namespace, at, i, st) ==
  IF i > Len(pattern.properties) THEN st
  ELSE
    LET property == pattern.properties[i]
        here == Append(at, i)
        after ==
          IF \/ property.type \in {"ExperimentalRestProperty", "RestElement"}
             \/ property.key.type = NoNode
            THEN st
          ELSE IF property.key.type # "Identifier"
            THEN [st EXCEPT !.reports =
                    Append(@, Report("property", here, destructureMessage))]
          ELSE
            LET pushed == [st EXCEPT !.path = Append(@, property.key.name)]
                dependencyExportMap == Get(namespace, property.key.name)
                tested ==
                  IF ~Has(namespace, property.key.name)
                    THEN [pushed EXCEPT !.reports =
                            Append(@, Report("property", here,
                                             makeMessage(property.key.name, pushed.path)))]
                  ELSE IF ~dependencyExportMap.isNull
                    THEN testKey(property.value, dependencyExportMap.namespace,
                                 here, pushed)
                    ELSE pushed
            IN [tested EXCEPT !.path = pop(@)]
    IN forOfProperties(pattern, namespace, at, i + 1, after)

\* faulty variant of forOfProperties: the key is not popped off the path
\* after the nested pattern
forOfPropertiesNoPop(pattern, namespace, at, i, st) ==
  IF i > Len(pattern.properties) THEN st
  ELSE
    LET property == pattern.properties[i]
        here == Append(at, i)
        after ==
          IF \/ property.type \in {"ExperimentalRestProperty", "RestElement"}
             \/ property.key.type = NoNode
            THEN st
          ELSE IF property.key.type # "Identifier"
            THEN [st EXCEPT !.reports =
                    Append(@, Report("property", here, destructureMessage))]
          ELSE IF ~Has(namespace, property.key.name)
            THEN [st EXCEPT !.reports =
                    Append(@, Report("property", here,
                                     makeMessage(property.key.name, st.path)))]
          ELSE
            LET pushed == [st EXCEPT !.path = Append(@, property.key.name)]
                dependencyExportMap == Get(namespace, property.key.name)
            IN IF ~dependencyExportMap.isNull
                 THEN testKey(property.value, dependencyExportMap.namespace,
                              here, pushed)
                 ELSE pushed
    IN forOfProperties(pattern, namespace, at, i + 1, after)

\* for (const property of pattern.properties), from the i-th on
forOfProperties(pattern, namespace, at, i, st) ==
  IF i > Len(pattern.properties) THEN st
  ELSE
    LET property == pattern.properties[i]
        here == Append(at, i)
        after ==
          IF \/ property.type \in {"ExperimentalRestProperty", "RestElement"}
             \/ property.key.type = NoNode
            THEN st
          ELSE IF property.key.type # "Identifier"
            THEN [st EXCEPT !.reports =
                    Append(@, Report("property", here, destructureMessage))]
          ELSE IF ~Has(namespace, property.key.name)
            THEN [st EXCEPT !.reports =
                    Append(@, Report("property", here,
                                     makeMessage(property.key.name, st.path)))]
          ELSE
            LET pushed == [st EXCEPT !.path = Append(@, property.key.name)]
                dependencyExportMap == Get(namespace, property.key.name)
                tested ==
                  IF ~dependencyExportMap.isNull
                    THEN testKey(property.value, dependencyExportMap.namespace,
                                 here, pushed)
                    ELSE pushed
            IN [tested EXCEPT !.path = pop(@)]
    IN forOfProperties(pattern, namespace, at, i + 1, after)

\* VariableDeclarator({ id, init })
variableDeclarator(e, map) ==
  IF e.init.type = "null" THEN <<>>
  ELSE IF e.init.type # "Identifier" THEN <<>>
  ELSE IF ~MapHas(map, e.init.name) THEN <<>>
  ELSE IF e.scope # "module" THEN <<>>
  ELSE testKey(e.id, map[e.init.name], <<>>,
               [reports |-> <<>>, path |-> <<e.init.name>>]).reports

----------------------------------------------------------------------------
(* The JSXMemberExpression listener.                                       *)

\* object.name: a nested JSX member expression has none
jsxObjectName(e) == IF e.objectType = "JSXIdentifier" THEN e.object ELSE "undefined"

\* JSXMemberExpression({ object, property })
jsxMemberExpression(e, map) ==
  IF ~MapHas(map, jsxObjectName(e)) THEN <<>>
  ELSE IF ~Has(map[jsxObjectName(e)], e.property)
    THEN <<Report("property", <<>>, makeMessage(e.property, <<jsxObjectName(e)>>))>>
  ELSE <<>>

----------------------------------------------------------------------------
(* Inputs of the access listeners.                                         *)

PropertyNames == {"a", "b", "c", "d"}

\* what declaredScope(context, name) answers for the identifier at the node
ScopeKinds == {"module", "function"}

\* a property hop: obj.name, or obj[expr]
Segments ==
  [computed : {FALSE}, name : PropertyNames] \cup {[computed |-> TRUE, name |-> "a"]}

Chains == UNION {[1..n -> Segments] : n \in 1..MaxChain}

\* what encloses the whole chain: chain = v, v = chain, host[chain], chain;
ParentKinds == {"AssignmentLeft", "AssignmentRight", "ComputedProperty", "ExpressionStatement"}

MemberEvents ==
  [type : {"MemberExpression"}, objectType : {"Identifier"}, object : LocalNames,
   scope : ScopeKinds, segments : Chains, parent : ParentKinds, host : {"host"}]
  \cup [type : {"MemberExpression"}, objectType : {"CallExpression"}, object : {NoNode},
        scope : {"module"}, segments : [1..1 -> Segments], parent : ParentKinds,
        host : {"host"}]

\* a destructuring pattern, flat: its properties in source order (preorder),
\* each with its kind (a rest element, a literal key, or the name of an
\* identifier key) and its nesting level
PropertyKinds == {"RestElement", "Literal"} \cup PropertyNames

IsPattern(kinds, level) ==
  /\ DOMAIN kinds # {} => level[1] = 1
  /\ \A i \in DOMAIN kinds :
       i > 1 => /\ level[i] <= level[i - 1] + 1
                /\ level[i] = level[i - 1] + 1 => kinds[i - 1] \in PropertyNames

IdentifierPattern == [type |-> "Identifier", properties |-> <<>>]

RECURSIVE buildProperties(_, _, _, _, _)
\* the property nodes of level l among the flat properties lo..hi
buildProperties(kinds, level, lo, hi, l) ==
  IF lo > hi THEN <<>>
  ELSE
    LET later == {j \in (lo + 1)..hi : level[j] = l}
        next == IF later = {} THEN hi + 1
                ELSE CHOOSE j \in later : \A k \in later : j <= k
        children == buildProperties(kinds, level, lo + 1, next - 1, l + 1)
        property ==
          IF kinds[lo] = "RestElement"
            THEN [type |-> "RestElement", key |-> [type |-> NoNode, name |-> NoNode],
                  value |-> IdentifierPattern]
            ELSE [type |-> "Property",
                  key |-> IF kinds[lo] = "Literal"
                            THEN [type |-> "Literal", name |-> NoNode]
                            ELSE [type |-> "Identifier", name |-> kinds[lo]],
                  value |-> IF next = lo + 1 THEN IdentifierPattern
                            ELSE [type |-> "ObjectPattern", properties |-> children]]
    IN <<property>> \o buildProperties(kinds, level, next, hi, l)

\* the ObjectPattern node of a flat pattern
MakePattern(kinds, level) ==
  [type |-> "ObjectPattern",
   properties |-> buildProperties(kinds, level, 1, Len(kinds), 1)]

DeclaratorEvent(initType, name, scope, id) ==
  [type |-> "VariableDeclarator", init |-> [type |-> initType, name |-> name],
   scope |-> scope, id |-> id]

JSXEvents ==
  [type : {"JSXMemberExpression"}, objectType : {"JSXIdentifier", "JSXMemberExpression"},
   object : LocalNames, property : PropertyNames, scope : ScopeKinds]

ExportEvents == [type : {"ExportNamespaceSpecifier"}, source : Sources]

----------------------------------------------------------------------------

NoEvent == [type |-> "none"]

Init ==
  /\ pc = "created"
  /\ allowComputed \in BOOLEAN
  /\ namespaces = EmptyMap
  /\ event = NoEvent
  /\ reports = <<>>

\* Program({ body }): the first listener of a pass
Program ==
  /\ pc = "created"
  /\ \E n \in 0..MaxBody, m \in 0..MaxSpecifiers :
     \E kinds \in [1..n -> StatementKinds], specs \in [1..m -> ImportSpecifiers],
        owner \in [1..m -> 1..n] :
       /\ IsDeal(kinds, owner)
       /\ LET body == MakeBody(kinds, specs, owner)
              st == forEachStatement(body, 1, [namespaces |-> namespaces, reports |-> <<>>])
          IN /\ namespaces' = st.namespaces
             /\ reports' = st.reports
             /\ event' = [type |-> "Program", body |-> body]
  /\ pc' = "handler"
  /\ UNCHANGED allowComputed

\* the listener returns and the traverser moves on to the next node
Traverse ==
  /\ pc = "handler"
  /\ pc' = "traversal"
  /\ event' = NoEvent
  /\ reports' = <<>>
  /\ UNCHANGED <<allowComputed, namespaces>>

\* a listener that only reports: it leaves rs with context.report
Handled(e, rs) ==
  /\ event' = e
  /\ reports' = rs
  /\ pc' = "handler"
  /\ UNCHANGED <<allowComputed, namespaces>>

\* faulty variant of ExportNamespaceSpecifier: like processBodyStatement, it
\* adds the name to the local map
ExportNamespaceSpecifierRegisters ==
  /\ pc = "traversal"
  /\ \E e \in ExportEvents, name \in LocalNames :
       /\ event' = e
       /\ reports' = exportNamespaceSpecifier(e)
       /\ namespaces' = IF ExportsGet(e.source) # NullMap
                          THEN MapSet(namespaces, name, ExportsGet(e.source))
                          ELSE namespaces
       /\ pc' = "handler"
       /\ UNCHANGED allowComputed

ExportNamespaceSpecifier ==
  /\ pc = "traversal"
  /\ \E e \in ExportEvents : Handled(e, exportNamespaceSpecifier(e))

MemberExpression ==
  /\ pc = "traversal"
  /\ \E e \in MemberEvents : Handled(e, memberExpression(e, namespaces, allowComputed))

VariableDeclarator ==
  /\ pc = "traversal"
  /\ \/ \E n \in 0..MaxPattern :
          \E kinds \in [1..n -> PropertyKinds], level \in [1..n -> 1..n],
             name \in LocalNames, scope \in ScopeKinds :
            /\ IsPattern(kinds, level)
            /\ LET e == DeclaratorEvent("Identifier", name, scope,
                                        MakePattern(kinds, level))
               IN Handled(e, variableDeclarator(e, namespaces))
     \/ \E initType \in {"null", "CallExpression", "Identifier"}, name \in LocalNames :
          LET e == DeclaratorEvent(initType,
                                   IF initType = "Identifier" THEN name ELSE NoNode,
                                   "module", IdentifierPattern)
          IN Handled(e, variableDeclarator(e, namespaces))

JSXMemberExpression ==
  /\ pc = "traversal"
  /\ \E e \in JSXEvents : Handled(e, jsxMemberExpression(e, namespaces))

Next ==
  \/ Program
  \/ ExportNamespaceSpecifier
  \/ MemberExpression
  \/ VariableDeclarator
  \/ JSXMemberExpression
  \/ Traverse

Spec == Init /\ [][Next]_vars

----------------------------------------------------------------------------
(* Vocabulary of the properties.  These definitions restate what the       *)
(* specification means by a chain that resolves and by the place of a      *)
(* property in a pattern; they do not use the listeners' accumulators.     *)

\* a listener of type t has just run
Handling(t) == pc = "handler" /\ event.type = t

\* the member expression just handled is rooted at an identifier that
\* denotes an imported namespace: bound, and not shadowed
MemberOnNamespace ==
  /\ Handling("MemberExpression")
  /\ event.objectType = "Identifier"
  /\ MapHas(namespaces, event.object)
  /\ event.scope = "module"

\* the same for the initializer of the variable declarator just handled
DeclaratorOnNamespace ==
  /\ Handling("VariableDeclarator")
  /\ event.init.type = "Identifier"
  /\ MapHas(namespaces, event.init.name)
  /\ event.scope = "module"

RECURSIVE Reached(_, _)
\* the namespace the first k hops of chain e lead to when each of them is a
\* plain name that the namespace before it exports as a namespace; NullMap
\* when one of them is not
Reached(e, k) ==
  IF k = 0 THEN namespaces[e.object]
  ELSE LET before == Reached(e, k - 1)
           x == Get(before, e.segments[k].name)
       IN IF before = NullMap \/ e.segments[k].computed THEN NullMap
          ELSE IF x.has /\ ~x.isNull /\ IsExports(x.namespace) THEN x.namespace
          ELSE NullMap

\* hop k of chain e is a plain name looked up in a namespace
LookedUp(e, k) == Reached(e, k - 1) # NullMap /\ ~e.segments[k].computed

\* the root name and the names of the first k hops
NamepathTo(e, k) == <<e.object>> \o [j \in 1..k |-> e.segments[j].name]

\* the illegal-assignment diagnostic of chain e, if it is due: the chain is
\* one hop and the left-hand side of an assignment
AssignmentReports(e) ==
  IF Len(e.segments) = 1 /\ e.parent = "AssignmentLeft"
    THEN <<Report("parent", <<1>>, assignmentMessage(e.object))>>
    ELSE <<>>

\* the not-found diagnostic for hop k of chain e
NotFoundAt(e, k) ==
  Report("property", <<k>>, makeMessage(e.segments[k].name, NamepathTo(e, k - 1)))

RECURSIVE PropertyPaths(_, _)
\* the positions of the properties of a pattern, at all levels
PropertyPaths(pattern, at) ==
  IF pattern.type # "ObjectPattern" THEN {}
  ELSE UNION {{Append(at, i)} \cup PropertyPaths(pattern.properties[i].value, Append(at, i))
                : i \in DOMAIN pattern.properties}

RECURSIVE PropertyAt(_, _)
PropertyAt(pattern, p) ==
  IF Len(p) = 1 THEN pattern.properties[p[1]]
  ELSE PropertyAt(pattern.properties[p[1]].value, Tail(p))

RECURSIVE KeysTo(_, _)
\* the keys of the properties that enclose the property at p
KeysTo(pattern, p) ==
  IF Len(p) = 1 THEN <<>>
  ELSE <<pattern.properties[p[1]].key.name>>
         \o KeysTo(pattern.properties[p[1]].value, Tail(p))

RECURSIVE NamespaceOf(_, _, _)
\* the namespace the property at p is a member of: every enclosing property
\* is an identifier key exported as a namespace; NullMap when one is not
NamespaceOf(pattern, namespace, p) ==
  IF ~IsExports(namespace) THEN NullMap
  ELSE IF Len(p) = 1 THEN namespace
  ELSE LET q == pattern.properties[p[1]]
           x == Get(namespace, q.key.name)
       IN IF q.type = "Property" /\ q.key.type = "Identifier" /\ x.has /\ ~x.isNull
            THEN NamespaceOf(q.value, x.namespace, Tail(p))
            ELSE NullMap

IsPrefix(p, q) == Len(p) <= Len(q) /\ SubSeq(q, 1, Len(p)) = p

\* the diagnostics on the node at p, and on the nodes at or below p
ReportsAt(p) == {i \in DOMAIN reports : reports[i].node.path = p}
ReportsUnder(p) == {i \in DOMAIN reports : IsPrefix(p, reports[i].node.path)}

\* the property at p of the pattern just handled is an identifier key that
\* is looked up in a namespace
KeyLookedUp(p) ==
  /\ NamespaceOf(event.id, namespaces[event.init.name], p) # NullMap
  /\ PropertyAt(event.id, p).type = "Property"
  /\ PropertyAt(event.id, p).key.type = "Identifier"

\* what the lookup of that key answers
KeyLookup(p) ==
  Get(NamespaceOf(event.id, namespaces[event.init.name], p), PropertyAt(event.id, p).key.name)

\* the not-found diagnostic for the property at p
KeyNotFoundAt(p) ==
  Report("property", p,
         makeMessage(PropertyAt(event.id, p).key.name,
                     <<event.init.name>> \o KeysTo(event.id, p)))

----------------------------------------------------------------------------
(* C1 *)

\* C1, as stated: when the first k hops of a chain rooted at an imported
\* namespace resolve and hop k+1 is a name the namespace reached lacks, the
\* MemberExpression listener produces exactly one diagnostic: the not-found
\* diagnostic of hop k+1, with the namepath of the root and the k hops.
C1_ExactlyOneDiagnostic ==
  MemberOnNamespace =>
    \A k \in 1..Len(event.segments) :
      (LookedUp(event, k) /\ ~Has(Reached(event, k - 1), event.segments[k].name))
        => reports = <<NotFoundAt(event, k)>>

\* C1, amended: under the same condition the listener produces exactly one
\* not-found diagnostic, for hop k+1 with a namepath of length k+1, and none
\* for a later hop; its only other diagnostic is the illegal-assignment one,
\* which comes first when the chain is a single hop assigned to.
C1_OneNotFoundPerChain ==
  MemberOnNamespace =>
    \A k \in 1..Len(event.segments) :
      (LookedUp(event, k) /\ ~Has(Reached(event, k - 1), event.segments[k].name))
        => /\ reports = AssignmentReports(event) \o <<NotFoundAt(event, k)>>
           /\ Len(NamepathTo(event, k - 1)) = k

\* a chain of three hops whose second hop is missing from a nested namespace
C1_Witness ==
  /\ MemberOnNamespace
  /\ Len(event.segments) = 3
  /\ LookedUp(event, 2)
  /\ ~Has(Reached(event, 1), event.segments[2].name)
  /\ reports = <<NotFoundAt(event, 2)>>

----------------------------------------------------------------------------
(* C2 *)

\* C2: an assignment ns.x = v to a member of an imported namespace (ns is
\* bound and denotes the module-level binding) always produces the
\* illegal-assignment diagnostic, once, on the assignment, whether or not
\* the namespace has x.
C2_AssignmentAlwaysReported ==
  (/\ MemberOnNamespace
   /\ Len(event.segments) = 1
   /\ event.parent = "AssignmentLeft")
    => /\ Len(reports) >= 1
       /\ reports[1] = Report("parent", <<1>>, assignmentMessage(event.object))
       /\ \A i \in DOMAIN reports : reports[i].node.role = "parent" => i = 1

\* an assignment to a member the namespace exports
C2_Witness ==
  /\ MemberOnNamespace
  /\ Len(event.segments) = 1
  /\ event.parent = "AssignmentLeft"
  /\ ~event.segments[1].computed
  /\ Has(namespaces[event.object], event.segments[1].name)
  /\ reports = <<Report("parent", <<1>>, assignmentMessage(event.object))>>

----------------------------------------------------------------------------
(* C3 *)

\* the pattern just handled is { x: { y } }
IsNestedPair(x, y) == event.id = MakePattern(<<x, y>>, <<1, 2>>)

\* ns has x, x carries a namespace, and that namespace lacks y
NestedLacks(x, y) ==
  LET outer == Get(namespaces[event.init.name], x) IN
  /\ outer.has /\ ~outer.isNull /\ IsExports(outer.namespace)
  /\ ~Has(outer.namespace, y)

\* C3, as stated: destructuring { a: { b } } = ns, where ns is an imported
\* namespace that has a, a carries a namespace and that namespace lacks b,
\* produces exactly one not-found diagnostic, whose namepath is ns.a.b.
C3_NamepathIncludesMissingKey ==
  DeclaratorOnNamespace =>
    \A x, y \in PropertyNames :
      (IsNestedPair(x, y) /\ NestedLacks(x, y))
        => reports = <<Report("property", <<1, 1>>,
                              makeMessage(y, <<event.init.name, x, y>>))>>

\* C3, amended: under the same condition there is exactly one not-found
\* diagnostic; it names b as not found and its namepath is ns.a, the root
\* and the enclosing key.
C3_NamepathStopsAtEnclosingKey ==
  DeclaratorOnNamespace =>
    \A x, y \in PropertyNames :
      (IsNestedPair(x, y) /\ NestedLacks(x, y))
        => reports = <<Report("property", <<1, 1>>,
                              makeMessage(y, <<event.init.name, x>>))>>

\* { a: { b } } = ns with ns bound to "./root"
C3_Witness ==
  /\ DeclaratorOnNamespace
  /\ IsNestedPair("a", "b")
  /\ NestedLacks("a", "b")
  /\ Len(reports) = 1
  /\ reports[1].message = "'b' not found in deeply imported namespace 'ns.a'."

----------------------------------------------------------------------------
(* C4 *)

\* specifier i of statement d of the body just handled is a wildcard import
\* that processBodyStatement reaches, and its module exports nothing
EmptyWildcard(d, i) ==
  LET declaration == event.body[d] IN
  /\ declaration.type = "ImportDeclaration"
  /\ i \in DOMAIN declaration.specifiers
  /\ declaration.specifiers[i].type = "ImportNamespaceSpecifier"
  /\ ExportsGet(declaration.source) # NullMap
  /\ ExportMaps[ExportsGet(declaration.source)].errors = <<>>
  /\ Size(ExportsGet(declaration.source)) = 0

\* C4: a wildcard import specifier whose module resolves (without errors)
\* to an export map of size 0 gets exactly one empty-namespace diagnostic,
\* on the specifier, and its local name is registered all the same.
C4_EmptyWildcardReportedAndBound ==
  Handling("Program") =>
    \A d \in DOMAIN event.body, i \in 1..MaxSpecifiers :
      EmptyWildcard(d, i)
        => /\ Cardinality({j \in DOMAIN reports :
                             reports[j].node = [role |-> "specifier", path |-> <<d, i>>]}) = 1
           /\ \A j \in DOMAIN reports :
                reports[j].node = [role |-> "specifier", path |-> <<d, i>>]
                  => reports[j].message = noExportsMessage(event.body[d].source)
           /\ MapHas(namespaces, event.body[d].specifiers[i].local)

\* import * as ns from "./empty", alone in the file
C4_Witness ==
  /\ Handling("Program")
  /\ Len(event.body) = 1
  /\ EmptyWildcard(1, 1)
  /\ namespaces = [x \in {event.body[1].specifiers[1].local} |-> "./empty"]
  /\ reports = <<Report("specifier", <<1, 1>>, "No exported names found in module './empty'.")>>

----------------------------------------------------------------------------
(* C5 *)

\* C5: a computed access ns[expr] on an imported namespace produces, with
\* allowComputed false, exactly one unvalidatable-access diagnostic, on the
\* computed property, and nothing for the hops after it; with allowComputed
\* true it produces no diagnostic for the computed hop and none for the
\* hops after it either.  (An assignment to ns[expr] is reported as C2 says.)
C5_ComputedStopsTheWalk ==
  (MemberOnNamespace /\ event.segments[1].computed)
    => reports = AssignmentReports(event)
                   \o (IF allowComputed THEN <<>>
                       ELSE <<Report("property", <<1>>, computedMessage(event.object))>>)

\* ns[expr].d.d with allowComputed false
C5_Witness ==
  /\ MemberOnNamespace
  /\ ~allowComputed
  /\ Len(event.segments) = 3
  /\ event.segments[1].computed
  /\ ~event.segments[2].computed
  /\ Len(reports) = 1
  /\ reports[1].node = [role |-> "property", path |-> <<1>>]

----------------------------------------------------------------------------
(* C6 *)

\* C6: when the scope oracle answers something other than 'module' for the
\* dereferenced name, no access listener (member expression, variable
\* declarator, JSX member expression) produces a diagnostic.
C6_ShadowedNeverReported ==
  (/\ pc = "handler"
   /\ event.type \in {"MemberExpression", "VariableDeclarator", "JSXMemberExpression"}
   /\ event.scope # "module")
    => reports = <<>>

----------------------------------------------------------------------------
(* C7 *)

\* statement d of the body just handled is an import declaration for which
\* processBodyStatement resolved an export map, and the map reports errors
BrokenImport(d) ==
  LET declaration == event.body[d] IN
  /\ declaration.type = "ImportDeclaration"
  /\ Len(declaration.specifiers) > 0
  /\ ExportsGet(declaration.source) # NullMap
  /\ ExportMaps[ExportsGet(declaration.source)].errors # <<>>

\* the binding specifier i of statement d makes, NullMap if it makes none
BindingOf(d, i) ==
  LET declaration == event.body[d]
      specifier == declaration.specifiers[i]
      imports == ExportsGet(declaration.source)
  IN IF imports = NullMap THEN NullMap
     ELSE IF specifier.type = "ImportNamespaceSpecifier" THEN imports
     ELSE LET meta == Get(imports, IF specifier.imported = NoNode THEN "default"
                                   ELSE specifier.imported)
          IN IF meta.has /\ ~meta.isNull /\ IsExports(meta.namespace)
               THEN meta.namespace ELSE NullMap

\* C7: after program entry every binding of the table comes from a
\* specifier of an import declaration whose export map reported no errors;
\* for every import declaration whose export map reports errors, the errors
\* are forwarded on the declaration, in order, and nothing is reported on
\* any of its specifiers.
C7_NoBindingFromBrokenImport ==
  Handling("Program") =>
    /\ \A name \in DOMAIN namespaces :
         \E d \in DOMAIN event.body :
           /\ event.body[d].type = "ImportDeclaration"
           /\ ~BrokenImport(d)
           /\ \E i \in DOMAIN event.body[d].specifiers :
                /\ event.body[d].specifiers[i].local = name
                /\ BindingOf(d, i) = namespaces[name]
    /\ \A d \in DOMAIN event.body :
         BrokenImport(d)
           => /\ SelectSeq(reports, LAMBDA r : r.node.path[1] = d)
                   = reportErrors(ExportsGet(event.body[d].source), <<d>>, 1)
              /\ reportErrors(ExportsGet(event.body[d].source), <<d>>, 1) # <<>>

\* import * as ns from "./broken" before import * as deep from "./root"
C7_Witness ==
  /\ Handling("Program")
  /\ Len(event.body) = 2
  /\ BrokenImport(1)
  /\ event.body[1].specifiers[1].type = "ImportNamespaceSpecifier"
  /\ event.body[1].specifiers[1].local = "ns"
  /\ namespaces = [x \in {"deep"} |-> "./root"]
  /\ Len(reports) = 1
  /\ reports[1].node = [role |-> "declaration", path |-> <<1>>]

----------------------------------------------------------------------------
(* C8 *)

AccessTypes ==
  {"ExportNamespaceSpecifier", "MemberExpression", "VariableDeclarator", "JSXMemberExpression"}

\* C8: the binding table starts empty; only the program-entry listener
\* changes it; and no other listener runs before program entry, so every
\* access, wherever it stands in the file, is validated against the table
\* program entry built from the whole body.
C8_TableWrittenOnlyAtProgramEntry ==
  /\ namespaces = EmptyMap
  /\ [][/\ namespaces' # namespaces => (pc = "created" /\ event'.type = "Program")
        /\ event'.type \in AccessTypes => pc = "traversal"
        /\ pc = "created" => (event'.type = "Program" /\ pc' = "handler")]_vars

\* an access listener has reported against a table that program entry filled
C8_Witness ==
  /\ pc = "handler"
  /\ event.type \in AccessTypes
  /\ namespaces # EmptyMap
  /\ reports # <<>>

----------------------------------------------------------------------------
(* C9 *)

\* C9: a name the current namespace has but whose get() is null stops the
\* validation of its branch silently.  In a member chain nothing is
\* reported for that hop or a later one; in a destructuring pattern nothing
\* is reported for that property or below it.  A name the namespace lacks
\* always gets its not-found diagnostic instead.
C9_AmbiguousStopsSilently ==
  /\ MemberOnNamespace =>
       \A k \in 1..Len(event.segments) :
         LookedUp(event, k) =>
           LET x == Get(Reached(event, k - 1), event.segments[k].name) IN
           /\ (x.has /\ x.isNull) => reports = AssignmentReports(event)
           /\ ~x.has => \E i \in DOMAIN reports : reports[i] = NotFoundAt(event, k)
  /\ DeclaratorOnNamespace =>
       \A p \in PropertyPaths(event.id, <<>>) :
         KeyLookedUp(p) =>
           /\ (KeyLookup(p).has /\ KeyLookup(p).isNull) => ReportsUnder(p) = {}
           /\ ~KeyLookup(p).has =>
                \E i \in DOMAIN reports : reports[i] = KeyNotFoundAt(p)

\* a chain whose second hop is ambiguous and is followed by another hop
C9_Witness ==
  /\ MemberOnNamespace
  /\ Len(event.segments) = 3
  /\ LookedUp(event, 2)
  /\ Get(Reached(event, 1), event.segments[2].name).has
  /\ Get(Reached(event, 1), event.segments[2].name).isNull
  /\ ~event.segments[3].computed
  /\ reports = <<>>

----------------------------------------------------------------------------
(* C10 *)

\* C10: the properties of one level of a destructuring pattern are
\* validated independently.  A property whose key the current namespace
\* lacks gets exactly one not-found diagnostic and nothing is reported
\* below it; whatever came before it at its level (a missing key, a nested
\* pattern walked to the end), its namepath is the root followed by the
\* keys that enclose it.
C10_SiblingsValidatedIndependently ==
  DeclaratorOnNamespace =>
    \A p \in PropertyPaths(event.id, <<>>) :
      (KeyLookedUp(p) /\ ~KeyLookup(p).has)
        => /\ Cardinality(ReportsAt(p)) = 1
           /\ ReportsUnder(p) = ReportsAt(p)
           /\ \A i \in ReportsAt(p) : reports[i] = KeyNotFoundAt(p)

\* { a: { b }, d } = ns: the nested pattern of a is walked and reports b,
\* then the sibling d is reported against the namepath ns
C10_Witness ==
  /\ DeclaratorOnNamespace
  /\ event.id = MakePattern(<<"a", "b", "d">>, <<1, 2, 1>>)
  /\ namespaces[event.init.name] = "./root"
  /\ Len(reports) = 2
  /\ reports[1] = KeyNotFoundAt(<<1, 1>>)
  /\ reports[2] = KeyNotFoundAt(<<2>>)
  /\ reports[2].message = "'d' not found in imported namespace 'ns'."

====
